---- MODULE Spec2Model ----
(***************************************************************************)
(* Model of the two walkthroughs of ce599: data wrangling (07-Data         *)
(* Wrangling) and web APIs.  Every cell of the wrangling notebook is a     *)
(* call into pandas/numpy; each call is modelled by the routine the        *)
(* library runs for it (join indexers over factorized keys, stack/unstack  *)
(* over level codes, searchsorted binning, masked assignment, indicator    *)
(* matrix by take).  The cells of the API notebook are modelled statement  *)
(* by statement, with the exceptions that end a cell.                      *)
(*                                                                         *)
(* A DataFrame is a record of columns, each column a sequence.  A cell of  *)
(* a column that can hold a missing value is <<v>> or NaN (= <<>>).        *)
(***************************************************************************)
EXTENDS Integers, Sequences, FiniteSets, TLC

VARIABLES
    df1, df3, how, merged,              \* merging
    data, result, unstacked,            \* reshaping
    ages, bins, cats,                   \* binning
    data_randn, out40, capped,          \* outlier capping
    df, out45, dummies, df_with_dummy,  \* dummy variables
    df4, df5, out13, out14,             \* merging on other keys
    s1, s2, s3, out_concat,             \* concatenation
    pc_q, sent_q, err_q, results, data_json,
    quakes, df_quakes, csv_file, new_df, \* earthquake feed
    pc_g, sent_g, err_g, results_g,
    data_g, printed_g,                  \* geocoding request
    pc_s, conn, last_i, taken, printed_s,
    stalls, exit_s, err_s, closed,      \* streaming
    data_dup, out_duplicated,
    out_dropped, out_replaced,          \* duplicates
    section                             \* the part of the notebooks being run

mergeVars == <<df1, df3, how, merged>>
reshapeVars == <<data, result, unstacked>>
cutVars == <<ages, bins, cats>>
capVars == <<data_randn, out40, capped>>
dummyVars == <<df, out45, dummies, df_with_dummy>>
mergeKeyVars == <<df4, df5, out13, out14>>
concatVars == <<s1, s2, s3, out_concat>>
quakeVars ==
    <<pc_q, sent_q, err_q, results, data_json,
      quakes, df_quakes, csv_file, new_df>>
geocodeVars == <<pc_g, sent_g, err_g, results_g, data_g, printed_g>>
streamVars ==
    <<pc_s, conn, last_i, taken, printed_s, stalls, exit_s, err_s, closed>>
dupVars == <<data_dup, out_duplicated, out_dropped, out_replaced>>
vars == <<mergeVars, reshapeVars, cutVars, capVars, dummyVars, mergeKeyVars,
         concatVars,
         quakeVars,
         geocodeVars,
         streamVars,
         dupVars, section>>

----------------------------------------------------------------------------
(* Bounds of the model *)

MaxLeftRows == 3
MaxRightRows == 2
MaxCols == 2
MaxCell == 1
MaxEdge == 4
MaxAges == 2
MaxAbs == 5
MaxCells == 2
MaxDfRows == 3
MaxLabels == 3
MaxQuakes == 2
MaxResults == 2
MaxStalls == 2
MaxDupRows == 3

----------------------------------------------------------------------------
(* Generic helpers *)

NaN == <<>>

BoundedSeq(S, n) == UNION {[1..m -> S] : m \in 0..n}

RECURSIVE SumSeq(_)
SumSeq(s) == IF s = <<>> THEN 0 ELSE Head(s) + SumSeq(Tail(s))

Count(col, v) == Cardinality({i \in 1..Len(col) : col[i] = v})

Values(col) == {col[i] : i \in 1..Len(col)}

\* A name that no cell has assigned yet
Unset == <<>>

IsSet(x) == Len(x) > 0

----------------------------------------------------------------------------
(* The notebook's sections are independent: a section's behaviours start   *)
(* with the names of the other sections not yet assigned.                  *)

MergeNotRun ==
    /\ df1 = [key |-> <<>>, data1 |-> <<>>]
    /\ df3 = [key |-> <<>>, data2 |-> <<>>]
    /\ how = "none"
    /\ merged = [key |-> <<>>, data1 |-> <<>>, data2 |-> <<>>]

ReshapeNotRun == data = Unset /\ result = Unset /\ unstacked = Unset

CutNotRun == ages = <<>> /\ bins = <<>> /\ cats = Unset

CapNotRun == data_randn = <<>> /\ out40 = Unset /\ capped = FALSE

DummiesNotRun ==
    /\ df = [index |-> <<>>, key |-> <<>>, data1 |-> <<>>]
    /\ out45 = Unset
    /\ dummies = Unset
    /\ df_with_dummy = Unset

MergeKeysNotRun ==
    /\ df4 = [index |-> <<>>, key_1 |-> <<>>, data1 |-> <<>>]
    /\ df5 = [index |-> <<>>, key_2 |-> <<>>, data2 |-> <<>>]
    /\ out13 = Unset
    /\ out14 = Unset

ConcatNotRun ==
    /\ s1 = [index |-> <<>>, values |-> <<>>]
    /\ s2 = [index |-> <<>>, values |-> <<>>]
    /\ s3 = [index |-> <<>>, values |-> <<>>]
    /\ out_concat = Unset

QuakesNotRun ==
    /\ pc_q = "off"
    /\ sent_q = 0
    /\ err_q = <<>>
    /\ results = Unset
    /\ data_json = Unset
    /\ quakes = Unset
    /\ df_quakes = Unset
    /\ csv_file = Unset
    /\ new_df = Unset

GeocodeNotRun ==
    /\ pc_g = "off"
    /\ sent_g = 0
    /\ err_g = <<>>
    /\ results_g = Unset
    /\ data_g = Unset
    /\ printed_g = <<>>

StreamNotRun ==
    /\ pc_s = "off"
    /\ conn = "none"
    /\ last_i = Unset
    /\ taken = 0
    /\ printed_s = 0
    /\ stalls = 0
    /\ exit_s = "none"
    /\ err_s = <<>>
    /\ closed = 0

DuplicatesNotRun ==
    /\ data_dup = Unset
    /\ out_duplicated = Unset
    /\ out_dropped = Unset
    /\ out_replaced = Unset

\* Section s is being run and every other section has not run
NotRunExcept(s) ==
    /\ section = s
    /\ IF s = "merge" THEN TRUE ELSE MergeNotRun
    /\ IF s = "reshape" THEN TRUE ELSE ReshapeNotRun
    /\ IF s = "cut" THEN TRUE ELSE CutNotRun
    /\ IF s = "cap" THEN TRUE ELSE CapNotRun
    /\ IF s = "dummies" THEN TRUE ELSE DummiesNotRun
    /\ IF s = "mergekeys" THEN TRUE ELSE MergeKeysNotRun
    /\ IF s = "concat" THEN TRUE ELSE ConcatNotRun
    /\ IF s = "quakes" THEN TRUE ELSE QuakesNotRun
    /\ IF s = "geocode" THEN TRUE ELSE GeocodeNotRun
    /\ IF s = "stream" THEN TRUE ELSE StreamNotRun
    /\ IF s = "duplicates" THEN TRUE ELSE DuplicatesNotRun

\* A cell of section s leaves the names of the other sections alone
UnchangedExcept(s) ==
    /\ UNCHANGED section
    /\ IF s = "merge" THEN TRUE ELSE UNCHANGED mergeVars
    /\ IF s = "reshape" THEN TRUE ELSE UNCHANGED reshapeVars
    /\ IF s = "cut" THEN TRUE ELSE UNCHANGED cutVars
    /\ IF s = "cap" THEN TRUE ELSE UNCHANGED capVars
    /\ IF s = "dummies" THEN TRUE ELSE UNCHANGED dummyVars
    /\ IF s = "mergekeys" THEN TRUE ELSE UNCHANGED mergeKeyVars
    /\ IF s = "concat" THEN TRUE ELSE UNCHANGED concatVars
    /\ IF s = "quakes" THEN TRUE ELSE UNCHANGED quakeVars
    /\ IF s = "geocode" THEN TRUE ELSE UNCHANGED geocodeVars
    /\ IF s = "stream" THEN TRUE ELSE UNCHANGED streamVars
    /\ IF s = "duplicates" THEN TRUE ELSE UNCHANGED dupVars

----------------------------------------------------------------------------
(* Merging: cells 3-12 *)

Keys == {"a", "b", "c", "d"}

\* pd.DataFrame({'key': [...], 'data1': range(n)})
DataFrame1(keys) == [key |-> keys, data1 |-> [i \in 1..Len(keys) |-> i - 1]]

\* pd.DataFrame({'key': [...], 'data2': range(n)})
DataFrame3(keys) == [key |-> keys, data2 |-> [i \in 1..Len(keys) |-> i - 1]]

Df1Literal == DataFrame1(<<"b", "b", "a", "c", "a", "a", "b">>)
Df3Literal == DataFrame3(<<"a", "b", "b", "d">>)

\* The distinct key values in order of first appearance (the factorizer's
\* label order with sort=False), left keys first, then right keys.
RECURSIVE UniquesUpTo(_, _)
UniquesUpTo(s, n) ==
    IF n = 0 THEN <<>>
    ELSE LET u == UniquesUpTo(s, n - 1)
         IN IF \E i \in 1..Len(u) : u[i] = s[n] THEN u ELSE Append(u, s[n])

factorize_keys(lk, rk) == UniquesUpTo(lk \o rk, Len(lk) + Len(rk))

\* Row positions (1-based, ascending) of the rows whose key is v: one group
\* of the stable group sort.
RECURSIVE PositionsUpTo(_, _, _)
PositionsUpTo(keys, v, n) ==
    IF n = 0 THEN <<>>
    ELSE LET p == PositionsUpTo(keys, v, n - 1)
         IN IF keys[n] = v THEN Append(p, n) ELSE p

Positions(keys, v) == PositionsUpTo(keys, v, Len(keys))

\* Indexer pairs <<left position, right position>>; position 0 is the
\* library's -1, "no row on this side".
Cross(lp, rp) ==
    [k \in 1..(Len(lp) * Len(rp)) |->
        <<lp[((k - 1) \div Len(rp)) + 1], rp[((k - 1) % Len(rp)) + 1]>>]

LeftOnly(lp) == [k \in 1..Len(lp) |-> <<lp[k], 0>>]

RightOnly(rp) == [k \in 1..Len(rp) |-> <<0, rp[k]>>]

\* inner_join: per group, the cross product when both sides hold the key.
RECURSIVE inner_join_groups(_, _, _, _)
inner_join_groups(lk, rk, uniq, g) ==
    IF g = 0 THEN <<>>
    ELSE LET lp == Positions(lk, uniq[g])
             rp == Positions(rk, uniq[g])
         IN inner_join_groups(lk, rk, uniq, g - 1) \o
            (IF Len(lp) > 0 /\ Len(rp) > 0 THEN Cross(lp, rp) ELSE <<>>)

inner_join(lk, rk) ==
    LET uniq == factorize_keys(lk, rk)
    IN inner_join_groups(lk, rk, uniq, Len(uniq))

\* left_outer_join: per group of the left side, the cross product, or the
\* left rows alone with -1 when the right side lacks the key.
RECURSIVE left_outer_join_groups(_, _, _, _)
left_outer_join_groups(lk, rk, uniq, g) ==
    IF g = 0 THEN <<>>
    ELSE LET lp == Positions(lk, uniq[g])
             rp == Positions(rk, uniq[g])
         IN left_outer_join_groups(lk, rk, uniq, g - 1) \o
            (IF Len(rp) > 0 THEN Cross(lp, rp) ELSE LeftOnly(lp))

\* With sort=False the pairs are put back in the order of the left rows.
RECURSIVE RestoreLeftOrder(_, _)
RestoreLeftOrder(pairs, n) ==
    IF n = 0 THEN <<>>
    ELSE RestoreLeftOrder(pairs, n - 1) \o
         SelectSeq(pairs, LAMBDA p : p[1] = n)

left_outer_join_dup_once(lk, rk, sort) ==
    LET uniq == factorize_keys(lk, rk)
        grouped == left_outer_join_groups(lk, rk, uniq, Len(uniq))
        once == SelectSeq(grouped,
                    LAMBDA p : p[2] = 0 \/ p[2] = Positions(rk, rk[p[2]])[1])
    IN IF sort THEN once ELSE RestoreLeftOrder(once, Len(lk))

left_outer_join_drop_unmatched(lk, rk, sort) == inner_join(lk, rk)

left_outer_join(lk, rk, sort) ==
    LET uniq == factorize_keys(lk, rk)
        grouped == left_outer_join_groups(lk, rk, uniq, Len(uniq))
    IN IF sort THEN grouped ELSE RestoreLeftOrder(grouped, Len(lk))

Swap(pairs) == [k \in 1..Len(pairs) |-> <<pairs[k][2], pairs[k][1]>>]

right_outer_join_as_inner(lk, rk) == inner_join(lk, rk)

\* _right_outer_join(x, y) = left_outer_join(y, x) with the indexers swapped
right_outer_join(lk, rk) == Swap(left_outer_join(rk, lk, TRUE))

\* full_outer_join: per group, left rows alone, right rows alone, or the
\* cross product.
RECURSIVE full_outer_join_groups(_, _, _, _)
full_outer_join_groups(lk, rk, uniq, g) ==
    IF g = 0 THEN <<>>
    ELSE LET lp == Positions(lk, uniq[g])
             rp == Positions(rk, uniq[g])
         IN full_outer_join_groups(lk, rk, uniq, g - 1) \o
            (IF Len(rp) = 0 THEN LeftOnly(lp)
             ELSE IF Len(lp) = 0 THEN RightOnly(rp)
             ELSE Cross(lp, rp))

full_outer_join_as_left(lk, rk) == left_outer_join(lk, rk, FALSE)

full_outer_join(lk, rk) ==
    LET uniq == factorize_keys(lk, rk)
    IN full_outer_join_groups(lk, rk, uniq, Len(uniq))

inner_join_one_per_key(lk, rk) ==
    SelectSeq(inner_join(lk, rk),
        LAMBDA p : p[2] = Positions(rk, rk[p[2]])[1])

get_join_indexers_inner_once(lk, rk, h) ==
    IF h = "inner" THEN inner_join_one_per_key(lk, rk)
    ELSE IF h = "left" THEN left_outer_join(lk, rk, FALSE)
    ELSE IF h = "right" THEN right_outer_join(lk, rk)
    ELSE full_outer_join(lk, rk)

\* _get_join_indexers: the join function chosen by how
get_join_indexers(lk, rk, h) ==
    IF h = "inner" THEN inner_join(lk, rk)
    ELSE IF h = "left" THEN left_outer_join(lk, rk, FALSE)
    ELSE IF h = "right" THEN right_outer_join(lk, rk)
    ELSE full_outer_join(lk, rk)

\* take with fill: the column's value at each position, NaN at -1
Take(col, pos) ==
    [k \in 1..Len(pos) |-> IF pos[k] = 0 THEN NaN ELSE <<col[pos[k]]>>]

\* The merged columns: the key column is taken from the side that has the
\* row, each data column through its side's indexer.
merge_columns(lkey, ldata, rkey, rdata, h) ==
    LET pairs == get_join_indexers(lkey, rkey, h)
        lpos == [k \in 1..Len(pairs) |-> pairs[k][1]]
        rpos == [k \in 1..Len(pairs) |-> pairs[k][2]]
    IN [key |-> [k \in 1..Len(pairs) |->
                    IF lpos[k] # 0 THEN lkey[lpos[k]] ELSE rkey[rpos[k]]],
        left |-> Take(ldata, lpos),
        right |-> Take(rdata, rpos)]

\* pd.merge(df1, df3, on='key', how=h)
merge(left, right, h) ==
    LET m == merge_columns(left.key, left.data1, right.key, right.data2, h)
    IN [key |-> m.key, data1 |-> m.left, data2 |-> m.right]

EmptyMerged == [key |-> <<>>, data1 |-> <<>>, data2 |-> <<>>]

InitMerge ==
    /\ \/ /\ df1 \in {DataFrame1(k) : k \in BoundedSeq(Keys, MaxLeftRows)}
          /\ df3 \in {DataFrame3(k) : k \in BoundedSeq(Keys, MaxRightRows)}
       \/ /\ df1 = Df1Literal
          /\ df3 = Df3Literal
    /\ how = "none"
    /\ merged = EmptyMerged
    /\ NotRunExcept("merge")

\* pd.merge(df1, df3, on='key') and pd.merge(df1, df3, on='key', how='inner')
MergeInner ==
    /\ section = "merge"
    /\ how' = "inner"
    /\ merged' = merge(df1, df3, "inner")
    /\ UNCHANGED <<df1, df3>>
    /\ UnchangedExcept("merge")

\* pd.merge(df1, df3, on='key', how='left')
MergeLeft ==
    /\ section = "merge"
    /\ how' = "left"
    /\ merged' = merge(df1, df3, "left")
    /\ UNCHANGED <<df1, df3>>
    /\ UnchangedExcept("merge")

\* pd.merge(df1, df3, on='key', how='right')
MergeRight ==
    /\ section = "merge"
    /\ how' = "right"
    /\ merged' = merge(df1, df3, "right")
    /\ UNCHANGED <<df1, df3>>
    /\ UnchangedExcept("merge")

\* pd.merge(df1, df3, on='key', how='outer')
MergeOuter ==
    /\ section = "merge"
    /\ how' = "outer"
    /\ merged' = merge(df1, df3, "outer")
    /\ UNCHANGED <<df1, df3>>
    /\ UnchangedExcept("merge")

NextMerge == MergeInner \/ MergeLeft \/ MergeRight \/ MergeOuter

SpecMerge == InitMerge /\ [][NextMerge]_vars

----------------------------------------------------------------------------
(* Reshaping: cells 23-25 *)

RowLabels == {"Ohio", "Colorado"}
ColLabels == {"one", "two", "three"}

\* Non-empty label sequences without a repeated label
UniqueSeqs(S, n) ==
    {s \in BoundedSeq(S, n) :
        Len(s) > 0 /\ \A i, j \in 1..Len(s) : s[i] = s[j] => i = j}

CellValues == {<<v>> : v \in 0..MaxCell} \cup {NaN}

\* The tables of a given index and columns
Tables(index, columns) ==
    {[index |-> index, columns |-> columns, values |-> m] :
        m \in [1..Len(index) -> [1..Len(columns) -> CellValues]]}

\* pd.DataFrame(np.arange(6).reshape((2, 3)), index=['Ohio', 'Colorado'],
\*              columns=['one', 'two', 'three'])
DataLiteral ==
    [index |-> <<"Ohio", "Colorado">>,
     columns |-> <<"one", "two", "three">>,
     values |-> [r \in 1..2 |-> [c \in 1..3 |-> <<(r - 1) * 3 + (c - 1)>>]]]

FullyPopulated(frame) ==
    \A r \in 1..Len(frame.index) : \A c \in 1..Len(frame.columns) :
        frame.values[r][c] # NaN

\* The ascending sequence of a finite set of integers
RECURSIVE SortedSeq(_)
SortedSeq(S) ==
    IF S = {} THEN <<>>
    ELSE LET m == CHOOSE x \in S : \A y \in S : x <= y
         IN <<m>> \o SortedSeq(S \ {m})

stack_column_major(frame) ==
    LET N == Len(frame.index)
        K == Len(frame.columns)
        all == [p \in 1..(N * K) |->
                   [code |-> <<((p - 1) \div K) + 1, ((p - 1) % K) + 1>>,
                    value |-> frame.values[((p - 1) % N) + 1]
                                          [((p - 1) \div N) + 1]]]
        kept == SelectSeq(all, LAMBDA e : e.value # NaN)
    IN [levels |-> <<frame.index, frame.columns>>,
        codes |-> [p \in 1..Len(kept) |-> kept[p].code],
        values |-> [p \in 1..Len(kept) |-> kept[p].value]]

\* data.stack(): a series over the two-level index whose levels are the
\* frame's index and columns, with codes repeat(arange(N), K) and
\* tile(arange(K), N) over the row-major values; missing values are dropped.
stack(frame) ==
    LET N == Len(frame.index)
        K == Len(frame.columns)
        all == [p \in 1..(N * K) |->
                   [code |-> <<((p - 1) \div K) + 1, ((p - 1) % K) + 1>>,
                    value |-> frame.values[((p - 1) \div K) + 1]
                                          [((p - 1) % K) + 1]]]
        kept == SelectSeq(all, LAMBDA e : e.value # NaN)
    IN [levels |-> <<frame.index, frame.columns>>,
        codes |-> [p \in 1..Len(kept) |-> kept[p].code],
        values |-> [p \in 1..Len(kept) |-> kept[p].value]]

\* result.unstack(): the last level becomes the columns; rows and columns
\* are the observed codes of their level in code order, and each cell holds
\* the value stored under that pair of codes, NaN when there is none.
unstack(series) ==
    LET n == Len(series.codes)
        rowCodes == SortedSeq({series.codes[p][1] : p \in 1..n})
        colCodes == SortedSeq({series.codes[p][2] : p \in 1..n})
        At(r, c) == {p \in 1..n : series.codes[p] = <<r, c>>}
    IN [index |-> [i \in 1..Len(rowCodes) |-> series.levels[1][rowCodes[i]]],
        columns |-> [j \in 1..Len(colCodes) |-> series.levels[2][colCodes[j]]],
        values |-> [i \in 1..Len(rowCodes) |-> [j \in 1..Len(colCodes) |->
                       IF At(rowCodes[i], colCodes[j]) = {} THEN NaN
                       ELSE series.values[CHOOSE p \in
                                At(rowCodes[i], colCodes[j]) : TRUE]]]]

InitReshape ==
    /\ \/ \E index \in UniqueSeqs(RowLabels, Cardinality(RowLabels)) :
          \E columns \in UniqueSeqs(ColLabels, MaxCols) :
              data \in Tables(index, columns)
       \/ data = DataLiteral
    /\ result = Unset
    /\ unstacked = Unset
    /\ NotRunExcept("reshape")

\* result = data.stack()
Stack ==
    /\ section = "reshape"
    /\ result' = <<stack(data)>>
    /\ UNCHANGED <<data, unstacked>>
    /\ UnchangedExcept("reshape")

\* result.unstack()
Unstack ==
    /\ section = "reshape"
    /\ IsSet(result)
    /\ unstacked' = <<unstack(result[1])>>
    /\ UNCHANGED <<data, result>>
    /\ UnchangedExcept("reshape")

NextReshape == Stack \/ Unstack

SpecReshape == InitReshape /\ [][NextReshape]_vars

----------------------------------------------------------------------------
(* Binning: cells 33-37 *)

AgesLiteral == <<20, 22, 25, 27, 21, 23, 37, 31, 61, 45, 41, 32>>
BinsLiteral == <<18, 25, 35, 60, 100>>

\* Bin edges: pd.cut requires them to increase, without duplicates
IncreasingSeqs(S, n) ==
    {s \in BoundedSeq(S, n) :
        Len(s) >= 2 /\ \A i \in 1..(Len(s) - 1) : s[i] < s[i + 1]}

\* bins.searchsorted(x, side): the number of edges below x (side='left'),
\* or below or equal to x (side='right')
searchsorted(edges, x, side) ==
    IF side = "left"
    THEN Cardinality({i \in 1..Len(edges) : edges[i] < x})
    ELSE Cardinality({i \in 1..Len(edges) : edges[i] <= x})

cut_side_swapped(right) == IF right THEN "right" ELSE "left"

\* side = 'left' if right else 'right'
cut_side(right) == IF right THEN "left" ELSE "right"

\* The categories: one interval per pair of consecutive edges, closed on the
\* right by default and on the left with right=False
from_breaks(edges, right) ==
    [j \in 1..(Len(edges) - 1) |->
        [left |-> edges[j], right |-> edges[j + 1],
         closed |-> IF right THEN "right" ELSE "left"]]

\* _bins_to_cuts: ids by searchsorted; a value equal to the lowest edge is
\* put in the first bin only with include_lowest; ids 0 and len(bins) are
\* outside every bin and get code -1; otherwise the code is ids - 1.
bins_to_cuts(x, edges, right, include_lowest) ==
    [codes |-> [p \in 1..Len(x) |->
        LET found == searchsorted(edges, x[p], cut_side(right))
            ids == IF include_lowest /\ x[p] = edges[1] THEN 1 ELSE found
            na_mask == ids = Len(edges) \/ ids = 0
        IN (IF na_mask THEN 0 ELSE ids) - 1],
     categories |-> from_breaks(edges, right),
     right |-> right]

pd_cut_include_lowest(x, edges, right) == bins_to_cuts(x, edges, right, TRUE)

\* pd.cut(ages, bins, right=...)
pd_cut(x, edges, right) == bins_to_cuts(x, edges, right, FALSE)

InitCut ==
    /\ \/ /\ bins \in IncreasingSeqs(1..MaxEdge, MaxEdge)
          /\ ages \in {a \in BoundedSeq(0..(MaxEdge + 1), MaxAges) : Len(a) > 0}
       \/ /\ bins = BinsLiteral
          /\ ages = AgesLiteral
    /\ cats = Unset
    /\ NotRunExcept("cut")

\* cats = pd.cut(ages, bins)
CutRightClosed ==
    /\ section = "cut"
    /\ cats' = <<pd_cut(ages, bins, TRUE)>>
    /\ UNCHANGED <<ages, bins>>
    /\ UnchangedExcept("cut")

\* cats = pd.cut(ages, bins, right=False)
CutLeftClosed ==
    /\ section = "cut"
    /\ cats' = <<pd_cut(ages, bins, FALSE)>>
    /\ UNCHANGED <<ages, bins>>
    /\ UnchangedExcept("cut")

NextCut == CutRightClosed \/ CutLeftClosed

SpecCut == InitCut /\ [][NextCut]_vars

----------------------------------------------------------------------------
(* Outlier capping: cells 39-42.  The operations are elementwise and the   *)
(* same for each column of the frame: data_randn stands for one column     *)
(* (col = data[3]), its values modelled as integers.                       *)

\* The cap of cell 42
Threshold == 3

np_abs(v) == IF v < 0 THEN 0 - v ELSE v

np_sign(v) == IF v < 0 THEN 0 - 1 ELSE IF v > 0 THEN 1 ELSE 0

outlier_mask_no_abs(frame) == [i \in 1..Len(frame) |-> frame[i] > Threshold]

\* np.abs(data) > 3
outlier_mask(frame) == [i \in 1..Len(frame) |-> np_abs(frame[i]) > Threshold]

\* np.sign(data) * 3
signed_cap(frame) == [i \in 1..Len(frame) |-> np_sign(frame[i]) * Threshold]

\* data[mask] = value: the cells under the mask take the aligned value
setitem_mask(frame, mask, value) ==
    [i \in 1..Len(frame) |-> IF mask[i] THEN value[i] ELSE frame[i]]

\* col[mask]: the values under the mask, in order
getitem_mask(frame, mask) ==
    LET at == SelectSeq([i \in 1..Len(frame) |-> i], LAMBDA i : mask[i])
    IN [k \in 1..Len(at) |-> frame[at[k]]]

InitCap ==
    /\ data_randn \in BoundedSeq((0 - MaxAbs)..MaxAbs, MaxCells)
    /\ out40 = Unset
    /\ capped = FALSE
    /\ NotRunExcept("cap")

\* data[np.abs(data) > 3] = np.sign(data) * 3
CapOutliers ==
    /\ section = "cap"
    /\ data_randn' = setitem_mask(data_randn, outlier_mask(data_randn),
                                  signed_cap(data_randn))
    /\ capped' = TRUE
    /\ UNCHANGED <<out40>>
    /\ UnchangedExcept("cap")

\* col = data[3]; col[np.abs(col) > 3]
ShowOutliers ==
    /\ section = "cap"
    /\ out40' = <<getitem_mask(data_randn, outlier_mask(data_randn))>>
    /\ UNCHANGED <<data_randn, capped>>
    /\ UnchangedExcept("cap")

NextCap == CapOutliers \/ ShowOutliers

SpecCap == InitCap /\ [][NextCap]_vars

----------------------------------------------------------------------------
(* Dummy variables: cells 44-46 *)

\* The key values in sorted order
KeyOrder == <<"a", "b", "c", "d">>

\* pd.DataFrame({'key': [...], 'data1': range(n)}), with its default index
DataFrameDf(keys) ==
    [index |-> [i \in 1..Len(keys) |-> i - 1],
     key |-> keys,
     data1 |-> [i \in 1..Len(keys) |-> i - 1]]

DfLiteral == DataFrameDf(<<"b", "b", "a", "c", "a", "b">>)

\* The categories of a column: its distinct values, sorted
categories_of(col) == SelectSeq(KeyOrder, LAMBDA k : k \in Values(col))

\* The code of a value: its position in the categories, from 0
code_of(levels, v) == (CHOOSE j \in 1..Len(levels) : levels[j] = v) - 1

\* np.eye(k)
eye(k) == [i \in 1..k |-> [j \in 1..k |-> IF i = j THEN 1 ELSE 0]]

get_dummies_drop_first(index, col, prefix) ==
    LET levels == categories_of(col)
        k == Len(levels)
        dummy_mat == [i \in 1..Len(col) |-> eye(k)[code_of(levels, col[i]) + 1]]
    IN [index |-> index,
        columns |-> [j \in 1..(k - 1) |-> <<prefix, levels[j + 1]>>],
        values |-> [i \in 1..Len(col) |->
                       [j \in 1..(k - 1) |-> dummy_mat[i][j + 1]]]]

\* pd.get_dummies(col, prefix=...): one column per category, named by the
\* prefix and the category; row i of the result is row codes[i] of eye(k).
get_dummies(index, col, prefix) ==
    LET levels == categories_of(col)
        k == Len(levels)
    IN [index |-> index,
        columns |-> [j \in 1..k |-> <<prefix, levels[j]>>],
        values |-> [i \in 1..Len(col) |-> eye(k)[code_of(levels, col[i]) + 1]]]

\* df[['data1']].join(dummies): a left join on the two indexes
join(frame, other) ==
    LET pairs == get_join_indexers(frame.index, other.index, "left")
        lpos == [k \in 1..Len(pairs) |-> pairs[k][1]]
        rpos == [k \in 1..Len(pairs) |-> pairs[k][2]]
    IN [index |-> [k \in 1..Len(pairs) |-> frame.index[lpos[k]]],
        data1 |-> Take(frame.data1, lpos),
        columns |-> other.columns,
        values |-> Take(other.values, rpos)]

InitDummies ==
    /\ \/ df \in {DataFrameDf(k) : k \in BoundedSeq(Keys, MaxDfRows)}
       \/ df = DfLiteral
    /\ out45 = Unset
    /\ dummies = Unset
    /\ df_with_dummy = Unset
    /\ NotRunExcept("dummies")

\* pd.get_dummies(df['key'])
GetDummies ==
    /\ section = "dummies"
    /\ out45' = <<get_dummies(df.index, df.key, "")>>
    /\ UNCHANGED <<df, dummies, df_with_dummy>>
    /\ UnchangedExcept("dummies")

\* dummies = pd.get_dummies(df['key'], prefix='key')
\* df_with_dummy = df[['data1']].join(dummies)
GetDummiesAndJoin ==
    /\ section = "dummies"
    /\ dummies' = <<get_dummies(df.index, df.key, "key")>>
    /\ df_with_dummy' = <<join(df, dummies'[1])>>
    /\ UNCHANGED <<df, out45>>
    /\ UnchangedExcept("dummies")

NextDummies == GetDummies \/ GetDummiesAndJoin

SpecDummies == InitDummies /\ [][NextDummies]_vars

----------------------------------------------------------------------------
(* Merging on differently named keys and on the index: cells 13-14 *)

Hows == {"inner", "left", "right", "outer"}

RangeIndex(n) == [i \in 1..n |-> i - 1]

\* df4 = pd.DataFrame({'key_1': [...], 'data1': range(n)})
DataFrame4(keys) ==
    [index |-> RangeIndex(Len(keys)), key_1 |-> keys,
     data1 |-> [i \in 1..Len(keys) |-> i - 1]]

\* df5 = pd.DataFrame({'key_2': [...], 'data2': range(n)})
DataFrame5(keys) ==
    [index |-> RangeIndex(Len(keys)), key_2 |-> keys,
     data2 |-> [i \in 1..Len(keys) |-> i - 1]]

\* df5 = pd.DataFrame({'data2': [4,6,8,10]}, index=['a','b','c','d'])
DataFrame5Indexed(labels) ==
    [index |-> labels, data2 |-> [i \in 1..Len(labels) |-> 2 * i + 2]]

Df4Literal == DataFrame4(<<"b", "b", "a", "c", "a", "a", "b">>)
Df5Literal == DataFrame5(<<"a", "b", "b", "d">>)
Df5IndexedLiteral == DataFrame5Indexed(<<"a", "b", "c", "d">>)

\* _get_merge_keys: the left keys are the left_on column; the right keys are
\* the right_on column, or the row index with right_index=True
get_merge_keys(left, right, left_on, right_on, right_index) ==
    <<left[left_on], IF right_index THEN right.index ELSE right[right_on]>>

get_join_info_index_always_left(lk, rk, h, right_index) ==
    IF right_index
    THEN left_outer_join(lk, rk, FALSE)
    ELSE get_join_indexers(lk, rk, h)

\* _get_join_info: a left join on the right index goes through
\* _left_join_on_index (a left_outer_join of the keys against the index),
\* every other case through _get_join_indexers
get_join_info(lk, rk, h, right_index) ==
    IF right_index /\ h = "left"
    THEN left_outer_join(lk, rk, FALSE)
    ELSE get_join_indexers(lk, rk, h)

\* pd.merge(df4, df5, left_on='key_1', right_on='key_2', how=h): both key
\* columns are kept, each taken through its side's indexer
merge_left_on_right_on(left, right, h) ==
    LET ks == get_merge_keys(left, right, "key_1", "key_2", FALSE)
        pairs == get_join_info(ks[1], ks[2], h, FALSE)
        lpos == [k \in 1..Len(pairs) |-> pairs[k][1]]
        rpos == [k \in 1..Len(pairs) |-> pairs[k][2]]
    IN [how |-> h,
        key_1 |-> Take(left.key_1, lpos),
        data1 |-> Take(left.data1, lpos),
        key_2 |-> Take(right.key_2, rpos),
        data2 |-> Take(right.data2, rpos)]

\* pd.merge(df4, df5, left_on='key_1', right_index=True, how=h): the key
\* column of a row without a left row is filled from the right index
merge_left_on_right_index(left, right, h) ==
    LET ks == get_merge_keys(left, right, "key_1", "", TRUE)
        pairs == get_join_info(ks[1], ks[2], h, TRUE)
        lpos == [k \in 1..Len(pairs) |-> pairs[k][1]]
        rpos == [k \in 1..Len(pairs) |-> pairs[k][2]]
    IN [how |-> h,
        key_1 |-> [k \in 1..Len(pairs) |->
                      IF lpos[k] # 0 THEN <<left.key_1[lpos[k]]>>
                      ELSE <<right.index[rpos[k]]>>],
        data1 |-> Take(left.data1, lpos),
        data2 |-> Take(right.data2, rpos)]

HasKeyColumn(frame) == "key_2" \in DOMAIN frame

InitMergeKeys ==
    /\ \/ /\ df4 \in {DataFrame4(k) : k \in BoundedSeq(Keys, MaxLeftRows)}
          /\ \/ df5 \in {DataFrame5(k) : k \in BoundedSeq(Keys, MaxRightRows)}
             \/ df5 \in {DataFrame5Indexed(k) :
                            k \in BoundedSeq(Keys, MaxRightRows)}
       \/ /\ df4 = Df4Literal
          /\ df5 \in {Df5Literal, Df5IndexedLiteral}
    /\ out13 = Unset
    /\ out14 = Unset
    /\ NotRunExcept("mergekeys")

\* pd.merge(df4, df5, left_on='key_1', right_on='key_2'), for each how
MergeOnNames ==
    /\ section = "mergekeys"
    /\ HasKeyColumn(df5)
    /\ \E h \in Hows : out13' = <<merge_left_on_right_on(df4, df5, h)>>
    /\ UNCHANGED <<df4, df5, out14>>
    /\ UnchangedExcept("mergekeys")

\* pd.merge(df4, df5, left_on='key_1', right_index=True), for each how
MergeOnIndex ==
    /\ section = "mergekeys"
    /\ ~HasKeyColumn(df5)
    /\ \E h \in Hows : out14' = <<merge_left_on_right_index(df4, df5, h)>>
    /\ UNCHANGED <<df4, df5, out13>>
    /\ UnchangedExcept("mergekeys")

NextMergeKeys == MergeOnNames \/ MergeOnIndex

SpecMergeKeys == InitMergeKeys /\ [][NextMergeKeys]_vars

----------------------------------------------------------------------------
(* Concatenating along the columns: cells 17-21 *)

\* The index labels of the series, in sorted order
LabelOrder == <<"a", "b", "c", "d", "e", "f", "g">>

\* The labels the generated series draw their index from
Labels == {LabelOrder[i] : i \in 1..MaxLabels}

\* pd.Series(values, index=labels)
Series(values, labels) == [index |-> labels, values |-> values]

\* The series over each sorted set of labels; series k holds 10 k + i at
\* its i-th label
SeriesOver(k) ==
    {LET labels == SelectSeq(LabelOrder, LAMBDA l : l \in S)
     IN Series([i \in 1..Len(labels) |-> 10 * k + i], labels) :
        S \in SUBSET Labels}

S1Literal == Series(<<0, 1>>, <<"a", "b">>)
S2Literal == Series(<<2, 3, 4>>, <<"c", "d", "e">>)
S3Literal == Series(<<5, 6>>, <<"f", "g">>)
S4Literal == Series(<<4, 5, 6>>, <<"c", "d", "e">>)
S5Literal == Series(<<1, 2, 3>>, <<"d", "e", "f">>)
S6Literal == Series(<<7, 8, 9, 10>>, <<"d", "e", "f", "g">>)

\* Index.union of two sorted indexes: the sorted labels of either
index_union(a, b) ==
    SelectSeq(LabelOrder, LAMBDA l : l \in Values(a) \cup Values(b))

\* Index.intersection: the labels of the first that the second holds too
index_intersection(a, b) == SelectSeq(a, LAMBDA l : l \in Values(b))

get_combined_index_ignore_join(indexes, intersect) ==
    index_union(index_union(indexes[1], indexes[2]), indexes[3])

\* _get_combined_index: the indexes folded by intersection (join='inner')
\* or by union (join='outer')
get_combined_index(indexes, intersect) ==
    IF intersect
    THEN index_intersection(index_intersection(indexes[1], indexes[2]),
                            indexes[3])
    ELSE index_union(index_union(indexes[1], indexes[2]), indexes[3])

\* reindex: the series' value at each label of the new index, NaN where the
\* series has no such label
reindex(series, index) ==
    [k \in 1..Len(index) |->
        IF index[k] \in Values(series.index)
        THEN <<series.values[CHOOSE p \in 1..Len(series.index) :
                                series.index[p] = index[k]]>>
        ELSE NaN]

\* pd.concat(objs, axis=1, join=...): one column per series, aligned on the
\* combined index
concat_columns(objs, join_how) ==
    LET index == get_combined_index(
                     [k \in 1..Len(objs) |-> objs[k].index],
                     join_how = "inner")
    IN [join |-> join_how,
        index |-> index,
        columns |-> [k \in 1..Len(objs) |-> k - 1],
        values |-> [k \in 1..Len(objs) |-> reindex(objs[k], index)]]

InitConcat ==
    /\ \/ /\ s1 \in SeriesOver(1)
          /\ s2 \in SeriesOver(2)
          /\ s3 \in SeriesOver(3)
       \/ s1 = S1Literal /\ s2 = S2Literal /\ s3 = S3Literal
       \/ s1 = S4Literal /\ s2 = S5Literal /\ s3 = S6Literal
    /\ out_concat = Unset
    /\ NotRunExcept("concat")

\* pd.concat([s1, s2, s3], axis=1) and pd.concat(..., axis=1, join='outer')
ConcatOuter ==
    /\ section = "concat"
    /\ out_concat' = <<concat_columns(<<s1, s2, s3>>, "outer")>>
    /\ UNCHANGED <<s1, s2, s3>>
    /\ UnchangedExcept("concat")

\* pd.concat([s1, s2, s3], axis=1, join='inner')
ConcatInner ==
    /\ section = "concat"
    /\ out_concat' = <<concat_columns(<<s1, s2, s3>>, "inner")>>
    /\ UNCHANGED <<s1, s2, s3>>
    /\ UnchangedExcept("concat")

NextConcat == ConcatOuter \/ ConcatInner

SpecConcat == InitConcat /\ [][NextConcat]_vars

----------------------------------------------------------------------------
(* The earthquake feed: cells 3-14 of the API notebook.  The cells run in  *)
(* the notebook's order; an exception ends its cell at the failing         *)
(* statement and is logged in err_q, and the next cell can still be run.   *)
(* Magnitudes and depths are decimal numbers with one fractional digit,    *)
(* held as their number of tenths; a JSON null is NaN.                     *)

\* One feature of the feed; a feature without its 'properties' or
\* 'geometry' member is not complete
QuakeFeatures ==
    {[complete |-> TRUE, mag |-> m, depth |-> d] :
        m \in {<<47>>, <<60>>, NaN}, d \in {<<0 - 5>>, <<105>>, <<1000>>}}
    \cup {[complete |-> FALSE, mag |-> NaN, depth |-> NaN]}

\* The JSON documents the server can answer with
QuakeDocs ==
    {[has_features |-> TRUE, features |-> f] :
        f \in BoundedSeq(QuakeFeatures, MaxQuakes)}
    \cup {[has_features |-> FALSE, features |-> <<>>]}

\* The response bodies: the text of a document, or text that is not JSON
QuakeBodies ==
    {[wellformed |-> TRUE, doc |-> d] : d \in QuakeDocs}
    \cup {[wellformed |-> FALSE,
           doc |-> [has_features |-> FALSE, features |-> <<>>]]}

\* What a GET can come to: a response, or a network failure
QuakeOutcomes ==
    {[ok |-> TRUE, text |-> b] : b \in QuakeBodies}
    \cup {[ok |-> FALSE,
           text |-> [wellformed |-> FALSE,
                     doc |-> [has_features |-> FALSE, features |-> <<>>]]]}

requests_get_retry(outcome) ==
    [sent |-> IF outcome.ok THEN 1 ELSE 2, ok |-> outcome.ok,
     text |-> outcome.text]

\* requests.get(url): one request is sent; the call returns the response or
\* raises on a network failure
requests_get(outcome) ==
    [sent |-> 1, ok |-> outcome.ok, text |-> outcome.text]

json_loads_lenient(text) ==
    [raised |-> FALSE, value |-> <<text.doc>>]

\* json.loads(results): the document, or ValueError for text that is not
\* JSON
json_loads(text) ==
    IF text.wellformed THEN [raised |-> FALSE, value |-> <<text.doc>>]
    ELSE [raised |-> TRUE, value |-> Unset]

\* The log of exceptions, one entry per failed cell
Raise(log, cell, exception) == Append(log, <<cell, exception>>)

\* pd.DataFrame.from_dict(d): the columns in sorted order, over the default
\* row index
from_dict_unequal(features) ==
    [index |-> RangeIndex(Len(features)),
     columns |-> <<"depth", "magnitude">>,
     values |-> <<[i \in 1..Len(features) |-> features[i].depth],
                  [i \in 1..(Len(features) - 1) |-> features[i].mag]>>]

from_dict(features) ==
    [index |-> RangeIndex(Len(features)),
     columns |-> <<"depth", "magnitude">>,
     values |-> <<[i \in 1..Len(features) |-> features[i].depth],
                  [i \in 1..Len(features) |-> features[i].mag]>>]

DigitChars == <<"0", "1", "2", "3", "4", "5", "6", "7", "8", "9">>

\* The decimal digits of a natural number
RECURSIVE Digits(_)
Digits(n) ==
    IF n < 10 THEN <<DigitChars[n + 1]>>
    ELSE Append(Digits(n \div 10), DigitChars[(n % 10) + 1])

\* The text of an integer
format_int(n) == IF n < 0 THEN <<"-">> \o Digits(0 - n) ELSE Digits(n)

\* The text of a float cell: the sign, the integer digits, the point and
\* the fractional digit; the empty field for NaN (na_rep='')
format_float(cell) ==
    IF cell = NaN THEN <<>>
    ELSE LET n == cell[1]
             m == IF n < 0 THEN 0 - n ELSE n
         IN (IF n < 0 THEN <<"-">> ELSE <<>>)
            \o Digits(m \div 10) \o <<".">> \o Digits(m % 10)

\* df.to_csv(path): a header row of the column names after an empty field
\* for the index, then one row per row of the frame: the index label and
\* the values as text
to_csv(frame) ==
    [header |-> <<"">> \o frame.columns,
     rows |-> [i \in 1..Len(frame.index) |->
                  <<format_int(frame.index[i])>> \o
                  [c \in 1..Len(frame.columns) |->
                      format_float(frame.values[c][i])]]]

DigitValue(ch) == (CHOOSE d \in 1..10 : DigitChars[d] = ch) - 1

\* The number read from a field: its digits as an integer, and the count of
\* digits after the point
RECURSIVE ParseDigits(_, _)
ParseDigits(field, n) ==
    IF n = 0 THEN [int |-> 0, frac |-> 0, point |-> FALSE]
    ELSE LET r == ParseDigits(field, n - 1)
             ch == field[n]
         IN IF ch = "-" THEN r
            ELSE IF ch = "." THEN [r EXCEPT !.point = TRUE]
            ELSE [int |-> r.int * 10 + DigitValue(ch),
                  frac |-> IF r.point THEN r.frac + 1 ELSE r.frac,
                  point |-> r.point]

parse_int(field) ==
    LET r == ParseDigits(field, Len(field))
    IN IF Len(field) > 0 /\ field[1] = "-" THEN 0 - r.int ELSE r.int

\* A float cell from its text, in tenths; NaN from the empty field
parse_float(field) ==
    IF field = <<>> THEN NaN
    ELSE LET r == ParseDigits(field, Len(field))
             tenths == IF r.frac = 0 THEN r.int * 10 ELSE r.int
         IN <<IF field[1] = "-" THEN 0 - tenths ELSE tenths>>

from_csv_no_index_col(file) ==
    [index |-> RangeIndex(Len(file.rows)),
     columns |-> file.header,
     values |-> [c \in 1..Len(file.header) |->
                    [i \in 1..Len(file.rows) |->
                        parse_float(file.rows[i][c])]]]

\* pd.DataFrame.from_csv(path): header=0 and index_col=0, so the first
\* field of each row is the index label and the other header fields name
\* the columns; parse_dates leaves an index of small integers as it is
from_csv(file) ==
    [index |-> [i \in 1..Len(file.rows) |-> parse_int(file.rows[i][1])],
     columns |-> Tail(file.header),
     values |-> [c \in 1..(Len(file.header) - 1) |->
                    [i \in 1..Len(file.rows) |->
                        parse_float(file.rows[i][c + 1])]]]

InitQuakes ==
    /\ pc_q = "cell3"
    /\ sent_q = 0
    /\ err_q = <<>>
    /\ results = Unset
    /\ data_json = Unset
    /\ quakes = Unset
    /\ df_quakes = Unset
    /\ csv_file = Unset
    /\ new_df = Unset
    /\ NotRunExcept("quakes")

\* response = requests.get(endpoint_url); results = response.text
Cell3Get ==
    /\ section = "quakes"
    /\ pc_q = "cell3"
    /\ \E outcome \in QuakeOutcomes :
          LET response == requests_get(outcome)
          IN /\ sent_q' = sent_q + response.sent
             /\ IF response.ok
                THEN results' = <<response.text>> /\ err_q' = err_q
                ELSE results' = results
                     /\ err_q' = Raise(err_q, "cell3", "ConnectionError")
    /\ pc_q' = "cell5"
    /\ UNCHANGED <<data_json, quakes, df_quakes, csv_file, new_df>>
    /\ UnchangedExcept("quakes")

\* data = json.loads(results)
Cell5Loads ==
    /\ section = "quakes"
    /\ pc_q = "cell5"
    /\ IF ~IsSet(results)
       THEN data_json' = data_json
            /\ err_q' = Raise(err_q, "cell5", "NameError")
       ELSE IF json_loads(results[1]).raised
       THEN data_json' = data_json
            /\ err_q' = Raise(err_q, "cell5", "ValueError")
       ELSE data_json' = json_loads(results[1]).value /\ err_q' = err_q
    /\ pc_q' = "cell6"
    /\ UNCHANGED <<sent_q, results, quakes, df_quakes, csv_file, new_df>>
    /\ UnchangedExcept("quakes")

\* quakes = data['features']; print(quakes[0])
Cell6Features ==
    /\ section = "quakes"
    /\ pc_q = "cell6"
    /\ IF ~IsSet(data_json)
       THEN quakes' = quakes /\ err_q' = Raise(err_q, "cell6", "NameError")
       ELSE IF ~data_json[1].has_features
       THEN quakes' = quakes /\ err_q' = Raise(err_q, "cell6", "KeyError")
       ELSE /\ quakes' = <<data_json[1].features>>
            /\ err_q' = IF data_json[1].features = <<>>
                        THEN Raise(err_q, "cell6", "IndexError")
                        ELSE err_q
    /\ pc_q' = "cell9"
    /\ UNCHANGED <<sent_q, results, data_json, df_quakes, csv_file, new_df>>
    /\ UnchangedExcept("quakes")

\* d = {'magnitude': [...], 'depth': [...]}; df = pd.DataFrame.from_dict(d)
Cell9Frame ==
    /\ section = "quakes"
    /\ pc_q = "cell9"
    /\ IF ~IsSet(quakes)
       THEN df_quakes' = df_quakes
            /\ err_q' = Raise(err_q, "cell9", "NameError")
       ELSE IF \E i \in 1..Len(quakes[1]) : ~quakes[1][i].complete
       THEN df_quakes' = df_quakes
            /\ err_q' = Raise(err_q, "cell9", "KeyError")
       ELSE df_quakes' = <<from_dict(quakes[1])>> /\ err_q' = err_q
    /\ pc_q' = "cell13"
    /\ UNCHANGED <<sent_q, results, data_json, quakes, csv_file, new_df>>
    /\ UnchangedExcept("quakes")

\* df.to_csv('usgs_earthquake_data.csv')
Cell13ToCsv ==
    /\ section = "quakes"
    /\ pc_q = "cell13"
    /\ IF ~IsSet(df_quakes)
       THEN csv_file' = csv_file
            /\ err_q' = Raise(err_q, "cell13", "NameError")
       ELSE csv_file' = <<to_csv(df_quakes[1])>> /\ err_q' = err_q
    /\ pc_q' = "cell14"
    /\ UNCHANGED <<sent_q, results, data_json, quakes, df_quakes, new_df>>
    /\ UnchangedExcept("quakes")

\* new_df = pd.DataFrame.from_csv('usgs_earthquake_data.csv')
Cell14FromCsv ==
    /\ section = "quakes"
    /\ pc_q = "cell14"
    /\ IF ~IsSet(csv_file)
       THEN new_df' = new_df /\ err_q' = Raise(err_q, "cell14", "IOError")
       ELSE new_df' = <<from_csv(csv_file[1])>> /\ err_q' = err_q
    /\ pc_q' = "end"
    /\ UNCHANGED <<sent_q, results, data_json, quakes, df_quakes, csv_file>>
    /\ UnchangedExcept("quakes")

NextQuakes ==
    \/ Cell3Get
    \/ Cell5Loads
    \/ Cell6Features
    \/ Cell9Frame
    \/ Cell13ToCsv
    \/ Cell14FromCsv

SpecQuakes == InitQuakes /\ [][NextQuakes]_vars

----------------------------------------------------------------------------
(* The geocoding request: cells 21 and 23 of the API notebook.  Cell 21    *)
(* fetches, parses and prints in three statements; printed_g is what the   *)
(* two cells have printed.                                                 *)

\* One result of the geocoder; a result without 'geometry' or 'location'
\* is not complete
GeocodeResults ==
    {[complete |-> TRUE, lat |-> 38, lng |-> 0 - 84],
     [complete |-> TRUE, lat |-> 0, lng |-> 0],
     [complete |-> FALSE, lat |-> 0, lng |-> 0]}

GeocodeDocs ==
    {[has_results |-> TRUE, results |-> r] :
        r \in BoundedSeq(GeocodeResults, MaxResults)}
    \cup {[has_results |-> FALSE, results |-> <<>>]}

GeocodeBodies ==
    {[wellformed |-> TRUE, doc |-> d] : d \in GeocodeDocs}
    \cup {[wellformed |-> FALSE,
           doc |-> [has_results |-> FALSE, results |-> <<>>]]}

GeocodeOutcomes ==
    {[ok |-> TRUE, text |-> b] : b \in GeocodeBodies}
    \cup {[ok |-> FALSE,
           text |-> [wellformed |-> FALSE,
                     doc |-> [has_results |-> FALSE, results |-> <<>>]]]}

\* The results before the first one that is not complete
RECURSIVE CompletePrefix(_)
CompletePrefix(rs) ==
    IF rs = <<>> \/ ~Head(rs).complete THEN <<>>
    ELSE <<Head(rs)>> \o CompletePrefix(Tail(rs))

InitGeocode ==
    /\ pc_g = "cell21"
    /\ sent_g = 0
    /\ err_g = <<>>
    /\ results_g = Unset
    /\ data_g = Unset
    /\ printed_g = <<>>
    /\ NotRunExcept("geocode")

\* response = requests.get(url); results = response.text;
\* data = json.loads(results); print(data)
Cell21Fetch ==
    /\ section = "geocode"
    /\ pc_g = "cell21"
    /\ \E outcome \in GeocodeOutcomes :
          LET response == requests_get(outcome)
              parsed == json_loads(response.text)
          IN /\ sent_g' = sent_g + response.sent
             /\ IF ~response.ok
                THEN /\ err_g' = Raise(err_g, "cell21", "ConnectionError")
                     /\ UNCHANGED <<results_g, data_g, printed_g>>
                ELSE /\ results_g' = <<response.text>>
                     /\ IF parsed.raised
                        THEN /\ err_g' = Raise(err_g, "cell21", "ValueError")
                             /\ UNCHANGED <<data_g, printed_g>>
                        ELSE /\ data_g' = parsed.value
                             /\ printed_g' = Append(printed_g, <<"data">>)
                             /\ err_g' = err_g
    /\ pc_g' = "cell23"
    /\ UnchangedExcept("geocode")

\* for r in data['results']: coords = r['geometry']['location'];
\* print(coords['lat'], coords['lng'])
Cell23Coords ==
    /\ section = "geocode"
    /\ pc_g = "cell23"
    /\ IF ~IsSet(data_g)
       THEN printed_g' = printed_g
            /\ err_g' = Raise(err_g, "cell23", "NameError")
       ELSE IF ~data_g[1].has_results
       THEN printed_g' = printed_g
            /\ err_g' = Raise(err_g, "cell23", "KeyError")
       ELSE LET shown == CompletePrefix(data_g[1].results)
            IN /\ printed_g' = printed_g \o
                      [k \in 1..Len(shown) |->
                          <<"coords", shown[k].lat, shown[k].lng>>]
               /\ err_g' = IF Len(shown) < Len(data_g[1].results)
                           THEN Raise(err_g, "cell23", "KeyError")
                           ELSE err_g
    /\ pc_g' = "end"
    /\ UNCHANGED <<sent_g, results_g, data_g>>
    /\ UnchangedExcept("geocode")

NextGeocode ==
    \/ Cell21Fetch
    \/ Cell23Coords

SpecGeocode == InitGeocode /\ [][NextGeocode]_vars

----------------------------------------------------------------------------
(* The streaming cell of the API notebook.  taken counts the items the     *)
(* loop has taken from the iterator, printed_s the items whose three       *)
(* prints all ran, last_i the loop's counter i, closed the calls of        *)
(* r.close(); exit_s tells how the loop ended.                             *)
(* While the stream sends nothing the loop waits in the iterator: stalls   *)
(* counts these periods.                                                   *)

LIMIT == 20

\* What the iterator can hand to the loop: a tweet with every field, or an
\* item whose 'created_at', 'place' or 'text' cannot be read
StreamItems == {"tweet", "created_at", "place", "text"}

\* What api.request can come to
StreamRequests == {"open", "refused", "ConnectionError"}

break_at_limit(n) == n >= LIMIT

\* if (i > LIMIT): break
break_now(n) == n > LIMIT

after_loop_finally(exit) == "close"

after_loop_skip_close(exit) == "end"

\* The statement that runs after the loop: r.close() when the loop ended
\* by its break or by the end of the stream, none when an exception ended
\* the cell
after_loop(exit) == IF exit = "raised" THEN "end" ELSE "close"

InitStream ==
    /\ pc_s = "request"
    /\ conn = "none"
    /\ last_i = Unset
    /\ taken = 0
    /\ printed_s = 0
    /\ stalls = 0
    /\ exit_s = "none"
    /\ err_s = <<>>
    /\ closed = 0
    /\ NotRunExcept("stream")

\* r = api.request(endpoint, params); LIMIT = 20
StreamRequest ==
    /\ section = "stream"
    /\ pc_s = "request"
    /\ \E outcome \in StreamRequests :
          IF outcome = "ConnectionError"
          THEN /\ err_s' = Raise(err_s, "request", "TwitterConnectionError")
               /\ pc_s' = "end"
               /\ conn' = conn
          ELSE /\ conn' = outcome
               /\ pc_s' = "loop"
               /\ err_s' = err_s
    /\ UNCHANGED <<last_i, taken, printed_s, stalls, exit_s, closed>>
    /\ UnchangedExcept("stream")

\* The iterator waits: the stream has sent nothing
StreamStall ==
    /\ section = "stream"
    /\ pc_s = "loop"
    /\ conn = "open"
    /\ stalls < MaxStalls
    /\ stalls' = stalls + 1
    /\ UNCHANGED <<pc_s, conn, last_i, taken, printed_s, exit_s, err_s, closed>>
    /\ UnchangedExcept("stream")

\* One pass of the loop over a tweet: the three prints, then the test of
\* the counter
StreamTweet ==
    /\ section = "stream"
    /\ pc_s = "loop"
    /\ conn = "open"
    /\ last_i' = <<taken>>
    /\ taken' = taken + 1
    /\ printed_s' = printed_s + 1
    /\ IF break_now(taken)
       THEN exit_s' = "break" /\ pc_s' = after_loop("break")
       ELSE exit_s' = exit_s /\ pc_s' = pc_s
    /\ UNCHANGED <<conn, stalls, err_s, closed>>
    /\ UnchangedExcept("stream")

\* One pass of the loop over an item that lacks a field: the print that
\* reads the field raises
StreamItemFails ==
    /\ section = "stream"
    /\ pc_s = "loop"
    /\ conn = "open"
    /\ \E item \in StreamItems \ {"tweet"} :
          err_s' = Raise(err_s, item,
                         IF item = "place" THEN "TypeError" ELSE "KeyError")
    /\ last_i' = <<taken>>
    /\ taken' = taken + 1
    /\ exit_s' = "raised"
    /\ pc_s' = after_loop("raised")
    /\ UNCHANGED <<conn, printed_s, stalls, closed>>
    /\ UnchangedExcept("stream")

\* The iterator raises: the request was refused, or the connection failed
StreamFails ==
    /\ section = "stream"
    /\ pc_s = "loop"
    /\ err_s' = Raise(err_s, "get_iterator",
                      IF conn = "refused" THEN "TwitterRequestError"
                      ELSE "TwitterConnectionError")
    /\ exit_s' = "raised"
    /\ pc_s' = after_loop("raised")
    /\ UNCHANGED <<conn, last_i, taken, printed_s, stalls, closed>>
    /\ UnchangedExcept("stream")

\* The iterator is exhausted: the server ended the stream
StreamEnds ==
    /\ section = "stream"
    /\ pc_s = "loop"
    /\ conn = "open"
    /\ exit_s' = "exhausted"
    /\ pc_s' = after_loop("exhausted")
    /\ UNCHANGED <<conn, last_i, taken, printed_s, stalls, err_s, closed>>
    /\ UnchangedExcept("stream")

\* r.close()
StreamClose ==
    /\ section = "stream"
    /\ pc_s = "close"
    /\ closed' = closed + 1
    /\ conn' = "closed"
    /\ pc_s' = "end"
    /\ UNCHANGED <<last_i, taken, printed_s, stalls, exit_s, err_s>>
    /\ UnchangedExcept("stream")

NextStream ==
    \/ StreamRequest
    \/ StreamStall
    \/ StreamTweet
    \/ StreamItemFails
    \/ StreamFails
    \/ StreamEnds
    \/ StreamClose

SpecStream == InitStream /\ [][NextStream]_vars

----------------------------------------------------------------------------
(* The three programs of the API notebook *)

InitApi ==
    \/ InitQuakes
    \/ InitGeocode
    \/ InitStream

NextApi ==
    \/ NextQuakes
    \/ NextGeocode
    \/ NextStream

SpecApi == InitApi /\ [][NextApi]_vars

----------------------------------------------------------------------------
(* Duplicates and missing-data codes: cells 28-31.  data_dup is the frame  *)
(* the notebook calls data there; the three cells display their results.   *)

MissingCode == 99

\* pd.DataFrame({'k1': [...], 'k2': [...]})
DataFrameDup(rows) ==
    [index |-> RangeIndex(Len(rows)),
     k1 |-> [r \in 1..Len(rows) |-> rows[r][1]],
     k2 |-> [r \in 1..Len(rows) |-> rows[r][2]]]

DupLiteral ==
    DataFrameDup(<<(<<"one", 1>>), (<<"one", 1>>), (<<"one", 2>>),
                   (<<"two", 3>>), (<<"two", 3>>), (<<"two", 4>>),
                   (<<"two", MissingCode>>)>>)

DupRows == {"one", "two"} \X {1, 2, MissingCode}

duplicated_keep_last(frame) ==
    [r \in 1..Len(frame.index) |->
        \E q \in (r + 1)..Len(frame.index) :
            frame.k1[q] = frame.k1[r] /\ frame.k2[q] = frame.k2[r]]

\* data.duplicated(): a row is a duplicate when an earlier row holds the
\* same values
duplicated(frame) ==
    [r \in 1..Len(frame.index) |->
        \E q \in 1..(r - 1) :
            frame.k1[q] = frame.k1[r] /\ frame.k2[q] = frame.k2[r]]

\* The positions where the mask holds, in order
RECURSIVE WhereUpTo(_, _)
WhereUpTo(mask, n) ==
    IF n = 0 THEN <<>>
    ELSE IF mask[n] THEN Append(WhereUpTo(mask, n - 1), n)
    ELSE WhereUpTo(mask, n - 1)

\* data.drop_duplicates(): the rows that are not duplicates, under their
\* index labels
drop_duplicates(frame) ==
    LET keep == [r \in 1..Len(frame.index) |-> ~duplicated(frame)[r]]
        pos == WhereUpTo(keep, Len(keep))
    IN [index |-> [k \in 1..Len(pos) |-> frame.index[pos[k]]],
        k1 |-> [k \in 1..Len(pos) |-> frame.k1[pos[k]]],
        k2 |-> [k \in 1..Len(pos) |-> frame.k2[pos[k]]]]

\* data['k2'].replace(99, np.nan): the column with NaN for each 99
replace(frame, to_replace) ==
    [index |-> frame.index,
     values |-> [r \in 1..Len(frame.index) |->
                    IF frame.k2[r] = to_replace THEN NaN
                    ELSE <<frame.k2[r]>>]]

InitDuplicates ==
    /\ \E rows \in BoundedSeq(DupRows, MaxDupRows) :
          data_dup = <<DataFrameDup(rows)>>
    /\ out_duplicated = Unset
    /\ out_dropped = Unset
    /\ out_replaced = Unset
    /\ NotRunExcept("duplicates")

\* data.duplicated()
Duplicated ==
    /\ section = "duplicates"
    /\ IsSet(data_dup)
    /\ out_duplicated' = <<duplicated(data_dup[1])>>
    /\ UNCHANGED <<data_dup, out_dropped, out_replaced>>
    /\ UnchangedExcept("duplicates")

DropDuplicatesInPlace ==
    /\ section = "duplicates"
    /\ IsSet(data_dup)
    /\ out_dropped' = <<drop_duplicates(data_dup[1])>>
    /\ data_dup' = <<drop_duplicates(data_dup[1])>>
    /\ UNCHANGED <<out_duplicated, out_replaced>>
    /\ UnchangedExcept("duplicates")

\* data.drop_duplicates()
DropDuplicates ==
    /\ section = "duplicates"
    /\ IsSet(data_dup)
    /\ out_dropped' = <<drop_duplicates(data_dup[1])>>
    /\ UNCHANGED <<data_dup, out_duplicated, out_replaced>>
    /\ UnchangedExcept("duplicates")

\* data['k2'].replace(99, np.nan)
Replace ==
    /\ section = "duplicates"
    /\ IsSet(data_dup)
    /\ out_replaced' = <<replace(data_dup[1], MissingCode)>>
    /\ UNCHANGED <<data_dup, out_duplicated, out_dropped>>
    /\ UnchangedExcept("duplicates")

NextDuplicates ==
    \/ Duplicated
    \/ DropDuplicates
    \/ Replace

SpecDuplicates == InitDuplicates /\ [][NextDuplicates]_vars

----------------------------------------------------------------------------
(* Both notebooks: any section, any cell of it *)

Init ==
    \/ InitMerge
    \/ InitReshape
    \/ InitCut
    \/ InitCap
    \/ InitDummies
    \/ InitMergeKeys
    \/ InitConcat
    \/ InitQuakes
    \/ InitGeocode
    \/ InitStream
    \/ InitDuplicates

Next ==
    \/ NextMerge
    \/ NextReshape
    \/ NextCut
    \/ NextCap
    \/ NextDummies
    \/ NextMergeKeys
    \/ NextConcat
    \/ NextQuakes
    \/ NextGeocode
    \/ NextStream
    \/ NextDuplicates

Spec == Init /\ [][Next]_vars

----------------------------------------------------------------------------
(* Claims about merging *)

RECURSIVE SumProducts(_, _, _)
SumProducts(S, A, B) ==
    IF S = {} THEN 0
    ELSE LET v == CHOOSE x \in S : TRUE
         IN Count(A, v) * Count(B, v) + SumProducts(S \ {v}, A, B)

Max(a, b) == IF a >= b THEN a ELSE b

\* Rows of a merged frame as <<key, data1, data2>> tuples
RowsOf(key, d1, d2) == [k \in 1..Len(key) |-> <<key[k], d1[k], d2[k]>>]

SameBag(s, t) ==
    /\ Len(s) = Len(t)
    /\ \A x \in Values(s) \cup Values(t) : Count(s, x) = Count(t, x)

MergedRows == RowsOf(merged.key, merged.data1, merged.data2)

\* C1: an inner merge on the key has, for every key value v, (rows of A with
\* v) x (rows of B with v) rows, so its row count is the sum of these
\* products over the shared values and a value of one input only
\* contributes no row; the notebook's df1 and df3 give 9 rows.
C1_InnerRowCount ==
    how = "inner" =>
        /\ Len(merged.key) =
               SumProducts(Values(df1.key) \cap Values(df3.key), df1.key, df3.key)
        /\ \A v \in Keys :
               Count(merged.key, v) = Count(df1.key, v) * Count(df3.key, v)
        /\ \A v \in Keys :
               (v \notin Values(df1.key) \/ v \notin Values(df3.key))
                   => Count(merged.key, v) = 0
        /\ (df1 = Df1Literal /\ df3 = Df3Literal) => Len(merged.key) = 9

C1_Witness ==
    /\ how = "inner"
    /\ df1 = Df1Literal
    /\ df3 = Df3Literal
    /\ Count(merged.key, "b") = 6
    /\ Count(merged.key, "a") = 3
    /\ Len(merged.key) = 9

\* C2 as stated: a left merge has as many rows as A, whatever B holds.
C2_LeftRowCountIsA == how = "left" => Len(merged.key) = Len(df1.key)

\* C2 amended: in a left merge every row of A contributes max(1, rows of B
\* with its key) rows; the row count is that of A when no key value of A
\* occurs more than once in B, and is never below that of A.
C2_LeftRowCount ==
    how = "left" =>
        /\ Len(merged.key) =
               SumSeq([i \in 1..Len(df1.key) |->
                          Max(1, Count(df3.key, df1.key[i]))])
        /\ Len(merged.key) >= Len(df1.key)
        /\ (\A i \in 1..Len(df1.key) : Count(df3.key, df1.key[i]) <= 1)
               => Len(merged.key) = Len(df1.key)

C2_Witness ==
    /\ how = "left"
    /\ df1 = Df1Literal
    /\ df3 = Df3Literal
    /\ Len(merged.key) = 10

\* C3: in a left merge every row of A appears at least once, and a row of A
\* whose key has no match in B appears exactly once, with NaN in data2.
C3_LeftKeepsRows ==
    how = "left" =>
        \A i \in 1..Len(df1.key) :
            LET hits == {k \in 1..Len(merged.key) :
                            /\ merged.key[k] = df1.key[i]
                            /\ merged.data1[k] = <<df1.data1[i]>>}
            IN /\ hits # {}
               /\ Count(df3.key, df1.key[i]) = 0 =>
                      /\ Cardinality(hits) = 1
                      /\ \A k \in hits : merged.data2[k] = NaN

C3_Witness ==
    /\ how = "left"
    /\ \E i \in 1..Len(df1.key) : Count(df3.key, df1.key[i]) = 0
    /\ \E i \in 1..Len(df1.key) : Count(df3.key, df1.key[i]) > 1
    /\ \E k \in 1..Len(merged.key) : merged.data2[k] = NaN

\* C4: in an outer merge a key value with p rows in A and q rows in B has
\* p*q rows when both are positive, p rows with data2 NaN when q = 0, and
\* q rows with data1 NaN when p = 0; every key value of either input
\* appears in the result.
C4_OuterPerKey ==
    how = "outer" =>
        \A v \in Keys :
            LET p == Count(df1.key, v)
                q == Count(df3.key, v)
                rows == {k \in 1..Len(merged.key) : merged.key[k] = v}
            IN /\ (p > 0 /\ q > 0) =>
                      /\ Cardinality(rows) = p * q
                      /\ \A k \in rows :
                             merged.data1[k] # NaN /\ merged.data2[k] # NaN
               /\ (p > 0 /\ q = 0) =>
                      /\ Cardinality(rows) = p
                      /\ \A k \in rows :
                             merged.data1[k] # NaN /\ merged.data2[k] = NaN
               /\ (p = 0 /\ q > 0) =>
                      /\ Cardinality(rows) = q
                      /\ \A k \in rows :
                             merged.data1[k] = NaN /\ merged.data2[k] # NaN
               /\ (p = 0 /\ q = 0) => rows = {}
               /\ (p > 0 \/ q > 0) => rows # {}

C4_Witness ==
    /\ how = "outer"
    /\ df1 = Df1Literal
    /\ df3 = Df3Literal
    /\ Len(merged.key) = 11
    /\ \E k \in 1..Len(merged.key) :
           merged.key[k] = "d" /\ merged.data1[k] = NaN
    /\ \E k \in 1..Len(merged.key) :
           merged.key[k] = "c" /\ merged.data2[k] = NaN

\* merge(df3, df1, how='left'): df3 is the left input, df1 the right one
MergeSwappedLeft ==
    merge_columns(df3.key, df3.data2, df1.key, df1.data1, "left")

----------------------------------------------------------------------------
(* Claims about reshaping *)

\* C6: stacking a fully populated table with distinct row labels and
\* distinct column labels and unstacking the series gives the table back:
\* the same row labels, the same column labels, the same value in each cell.
C6_StackUnstackRoundTrip ==
    (IsSet(unstacked) /\ FullyPopulated(data)) =>
        /\ unstacked[1].index = data.index
        /\ unstacked[1].columns = data.columns
        /\ \A r \in 1..Len(data.index) : \A c \in 1..Len(data.columns) :
               unstacked[1].values[r][c] = data.values[r][c]

C6_Witness ==
    /\ IsSet(unstacked)
    /\ FullyPopulated(data)
    /\ data.index = <<"Ohio", "Colorado">>
    /\ Len(data.columns) >= 2
    /\ data.values[1][2] # data.values[2][1]
    /\ unstacked[1].values = data.values

----------------------------------------------------------------------------
(* Claims about binning *)

\* The category assigned to the value at position p (its code is not -1)
CatOf(p) == cats[1].categories[cats[1].codes[p] + 1]

Assigned(p) == cats[1].codes[p] >= 0

\* Positions of the values equal to an interior edge
OnInteriorEdge(p, i) == 1 < i /\ i < Len(bins) /\ ages[p] = bins[i]

\* C7: a value equal to an interior edge bins[i] is put in the lower
\* interval (bins[i-1], bins[i]] by default and in the upper interval
\* [bins[i], bins[i+1]) with right=False.
C7_EdgeValueBin ==
    IsSet(cats) =>
        \A p \in 1..Len(ages) : \A i \in 1..Len(bins) :
            OnInteriorEdge(p, i) =>
                /\ Assigned(p)
                /\ cats[1].right =>
                      CatOf(p) = [left |-> bins[i - 1], right |-> bins[i],
                                  closed |-> "right"]
                /\ ~cats[1].right =>
                      CatOf(p) = [left |-> bins[i], right |-> bins[i + 1],
                                  closed |-> "left"]

C7_Witness ==
    /\ IsSet(cats)
    /\ ~cats[1].right
    /\ ages = AgesLiteral
    /\ bins = BinsLiteral
    /\ OnInteriorEdge(3, 2)
    /\ CatOf(3) = [left |-> 25, right |-> 35, closed |-> "left"]

\* Interval membership
Contains(iv, v) ==
    IF iv.closed = "right" THEN iv.left < v /\ v <= iv.right
    ELSE iv.left <= v /\ v < iv.right

\* C8: every value lies in at most one category; a value inside the range of
\* the edges is assigned the one category that contains it, and a value
\* outside every category, the open outermost edge included, gets code -1.
C8_AtMostOneBin ==
    IsSet(cats) =>
        \A p \in 1..Len(ages) :
            LET v == ages[p]
                holding == {j \in 1..Len(cats[1].categories) :
                               Contains(cats[1].categories[j], v)}
                lowest == bins[1]
                highest == bins[Len(bins)]
                inside == IF cats[1].right THEN lowest < v /\ v <= highest
                          ELSE lowest <= v /\ v < highest
            IN /\ Cardinality(holding) <= 1
               /\ inside <=> Assigned(p)
               /\ Assigned(p) => holding = {cats[1].codes[p] + 1}
               /\ ~Assigned(p) => (holding = {} /\ cats[1].codes[p] = 0 - 1)
               /\ (cats[1].right /\ v = lowest) => ~Assigned(p)
               /\ (~cats[1].right /\ v = highest) => ~Assigned(p)

C8_Witness ==
    /\ IsSet(cats)
    /\ cats[1].right
    /\ \E p \in 1..Len(ages) : ages[p] = bins[1] /\ ~Assigned(p)
    /\ \E p \in 1..Len(ages) : ages[p] = bins[Len(bins)] /\ Assigned(p)

----------------------------------------------------------------------------
(* Claims about outlier capping *)

\* C9: the capping step turns every value v with |v| > T into sign(v) * T
\* and leaves every other value as it was, so that afterwards every value
\* satisfies |v| <= T (T = 3).
C9_Capping ==
    [][capped' =>
          /\ Len(data_randn') = Len(data_randn)
          /\ \A i \in 1..Len(data_randn) :
                /\ data_randn[i] > Threshold => data_randn'[i] = Threshold
                /\ data_randn[i] < 0 - Threshold =>
                       data_randn'[i] = 0 - Threshold
                /\ (0 - Threshold <= data_randn[i]
                        /\ data_randn[i] <= Threshold) =>
                       data_randn'[i] = data_randn[i]
                /\ 0 - Threshold <= data_randn'[i]
                /\ data_randn'[i] <= Threshold]_vars

\* Outliers of both signs were shown before the capping, and are capped
C9_Witness ==
    /\ capped
    /\ IsSet(out40)
    /\ \E k \in 1..Len(out40[1]) : out40[1][k] > Threshold
    /\ \E k \in 1..Len(out40[1]) : out40[1][k] < 0 - Threshold
    /\ \E i \in 1..Len(data_randn) : data_randn[i] = Threshold
    /\ \E i \in 1..Len(data_randn) : data_randn[i] = 0 - Threshold

----------------------------------------------------------------------------
(* Claims about dummy variables *)

\* The number of ones in a row of indicators
Ones(row) == Cardinality({j \in 1..Len(row) : row[j] = 1})

\* An indicator frame of the key column: one column per distinct key value,
\* one row per row of df, and in each row a 1 under the row's own key value
\* and a 0 under every other.
IsIndicatorFrame(frame, prefix) ==
    /\ Len(frame.columns) = Cardinality(Values(df.key))
    /\ Values(frame.columns) = {<<prefix, v>> : v \in Values(df.key)}
    /\ Len(frame.values) = Len(df.key)
    /\ \A i \in 1..Len(df.key) :
          /\ Len(frame.values[i]) = Len(frame.columns)
          /\ Ones(frame.values[i]) = 1
          /\ \A j \in 1..Len(frame.columns) :
                frame.values[i][j] =
                    (IF frame.columns[j] = <<prefix, df.key[i]>> THEN 1 ELSE 0)

\* C10: get_dummies of a key column with k distinct values has k indicator
\* columns, one per distinct value, and as many rows as the input; every row
\* has exactly one 1, under its own key value, and 0 elsewhere; the joined
\* frame carries these rows beside data1.
C10_DummiesOneHot ==
    /\ IsSet(out45) => IsIndicatorFrame(out45[1], "")
    /\ IsSet(dummies) => IsIndicatorFrame(dummies[1], "key")
    /\ IsSet(df_with_dummy) =>
          /\ Len(df_with_dummy[1].values) = Len(df.key)
          /\ df_with_dummy[1].columns = dummies[1].columns
          /\ \A i \in 1..Len(df.key) :
                /\ df_with_dummy[1].data1[i] = <<df.data1[i]>>
                /\ df_with_dummy[1].values[i] = <<dummies[1].values[i]>>

C10_Witness ==
    /\ IsSet(out45)
    /\ IsSet(df_with_dummy)
    /\ df = DfLiteral
    /\ Len(out45[1].columns) = 3
    /\ out45[1].values[3] = <<1, 0, 0>>
    /\ df_with_dummy[1].values[4] = <<(<<0, 0, 1>>)>>

----------------------------------------------------------------------------
(* Claims about the designation of the key *)

\* The same data with a commonly named key column
CommonLeft == [key |-> df4.key_1, data1 |-> df4.data1]

CommonRight ==
    [key |-> IF HasKeyColumn(df5) THEN df5.key_2 ELSE df5.index,
     data2 |-> df5.data2]

\* The rows paired by a merge: <<data1, data2>> of each result row, data1
\* and data2 naming the row of their side
PairedRows(m) == [k \in 1..Len(m.data1) |-> <<m.data1[k], m.data2[k]>>]

----------------------------------------------------------------------------
(* Claims about concatenation *)

ConcatInputs == <<s1, s2, s3>>

InEvery == {l \in Values(LabelOrder) :
               \A k \in 1..3 : l \in Values(ConcatInputs[k].index)}

InAny == {l \in Values(LabelOrder) :
             \E k \in 1..3 : l \in Values(ConcatInputs[k].index)}

\* C12: concatenation along the columns aligns the series on their row
\* index: with join='inner' the result's index is the set of labels of
\* every input, with join='outer' the set of labels of any input; a cell
\* holds its input's value at the label, and NaN when the input has no such
\* label; without a label common to all inputs the inner result is empty.
C12_ConcatAlignment ==
    IsSet(out_concat) =>
        LET out == out_concat[1]
        IN /\ out.join = "inner" => Values(out.index) = InEvery
           /\ out.join = "outer" => Values(out.index) = InAny
           /\ \A i, j \in 1..Len(out.index) :
                 out.index[i] = out.index[j] => i = j
           /\ Len(out.values) = 3
           /\ \A k \in 1..3 :
                 /\ Len(out.values[k]) = Len(out.index)
                 /\ \A i \in 1..Len(out.index) :
                       LET at == {p \in 1..Len(ConcatInputs[k].index) :
                                     ConcatInputs[k].index[p] = out.index[i]}
                       IN /\ at = {} => out.values[k][i] = NaN
                          /\ \A p \in at :
                                out.values[k][i] =
                                    <<ConcatInputs[k].values[p]>>
           /\ (out.join = "inner" /\ InEvery = {}) => out.index = <<>>

C12_Witness ==
    /\ IsSet(out_concat)
    /\ out_concat[1].join = "inner"
    /\ s1 = S4Literal
    /\ s2 = S5Literal
    /\ s3 = S6Literal
    /\ out_concat[1].index = <<"d", "e">>
    /\ out_concat[1].values = <<(<<(<<5>>), (<<6>>)>>),
                                (<<(<<1>>), (<<2>>)>>),
                                (<<(<<7>>), (<<8>>)>>)>>

----------------------------------------------------------------------------
(* Claims about the saved file *)

----------------------------------------------------------------------------
(* Claims about the requests and their failures *)

Raised(log, cell, exception) ==
    \E k \in 1..Len(log) : log[k] = <<cell, exception>>

DataPrinted == \E k \in 1..Len(printed_g) : printed_g[k] = <<"data">>

CoordsPrinted ==
    Cardinality({k \in 1..Len(printed_g) : printed_g[k][1] = "coords"})

C15_FailuresEndTheCell ==
    /\ Raised(err_q, "cell3", "ConnectionError") => ~IsSet(results)
    /\ Raised(err_q, "cell5", "ValueError") => ~IsSet(data_json)
    /\ Raised(err_q, "cell9", "KeyError") => ~IsSet(df_quakes)
    /\ Raised(err_g, "cell21", "ConnectionError") =>
           ~IsSet(results_g) /\ ~IsSet(data_g) /\ ~DataPrinted
    /\ Raised(err_g, "cell21", "ValueError") =>
           IsSet(results_g) /\ ~IsSet(data_g) /\ ~DataPrinted
    /\ Raised(err_g, "cell23", "KeyError") =>
           CoordsPrinted = 0 \/ CoordsPrinted < Len(data_g[1].results)
    /\ err_s # <<>> =>
           /\ pc_s = "end"
           /\ closed = 0
           /\ Len(err_s) = 1
           /\ err_s[1][1] \in StreamItems => printed_s = taken - 1

C15_Witness ==
    /\ Raised(err_s, "place", "TypeError")
    /\ taken = 3
    /\ printed_s = 2
    /\ pc_s = "end"
    /\ closed = 0

----------------------------------------------------------------------------
(* Claims about every dataset *)

\* The columns of a frame that holds each column under its name
ColumnFields(frame) ==
    DOMAIN frame \ {"index", "columns", "values", "how", "join"}

FieldsAligned(frame) ==
    \A f, g \in ColumnFields(frame) :
        /\ Len(frame[f]) = Len(frame[g])
        /\ "index" \in DOMAIN frame => Len(frame[f]) = Len(frame.index)

\* A frame that holds its values row by row
RowsAligned(frame) ==
    /\ Len(frame.values) = Len(frame.index)
    /\ \A r \in 1..Len(frame.values) :
           Len(frame.values[r]) = Len(frame.columns)

\* A frame that holds its values column by column
ColumnsAligned(frame) ==
    /\ Len(frame.values) = Len(frame.columns)
    /\ \A c \in 1..Len(frame.values) :
           Len(frame.values[c]) = Len(frame.index)

----------------------------------------------------------------------------
(* Claims about the inputs of the transformations *)

\* The datasets the transformations read, but for the frame of random
\* numbers
InputsButRandn ==
    <<df1, df3, df4, df5, s1, s2, s3, data, data_dup, ages, bins, df>>

\* C17 as stated: no step of either notebook changes a dataset that a
\* transformation reads, the frame of random numbers included.
C17_InputsNeverChange ==
    [][UNCHANGED <<InputsButRandn, data_randn>>]_vars

\* C17: merge, concat, stack, unstack, drop_duplicates, replace, cut and
\* get_dummies leave their inputs unchanged and put their result under
\* another name; only the capping step changes its input, assigning the
\* capped values into the frame of random numbers itself.
C17_OnlyCappingInPlace ==
    [][/\ UNCHANGED InputsButRandn
       /\ data_randn' # data_randn =>
              /\ section = "cap"
              /\ capped'
              /\ data_randn' =
                     setitem_mask(data_randn, outlier_mask(data_randn),
                                  signed_cap(data_randn))]_vars

C17_Witness ==
    /\ IsSet(out_dropped)
    /\ IsSet(out_replaced)
    /\ Len(out_dropped[1].index) < Len(data_dup[1].index)
    /\ \E r \in 1..Len(data_dup[1].index) :
           data_dup[1].k2[r] = MissingCode /\ out_replaced[1].values[r] = NaN

----------------------------------------------------------------------------
(* Claims about the streaming loop *)

\* C18: the loop takes and prints at most LIMIT + 2 = 22 items, and it
\* leaves by its break exactly after the item with i = LIMIT + 1, the
\* first with i > LIMIT.  The loop is left only by the break, by the end of
\* the stream or by an exception: a period in which the stream sends
\* nothing leaves the loop waiting.
C18_LoopBounded ==
    [][/\ LIMIT + 2 = 22
       /\ taken' <= LIMIT + 2
       /\ printed_s' <= taken'
       /\ exit_s' = "break" =>
              /\ taken' = LIMIT + 2
              /\ printed_s' = LIMIT + 2
              /\ last_i' = <<LIMIT + 1>>
       /\ pc_s = "loop" /\ pc_s' # "loop" =>
              /\ exit_s' \in {"break", "exhausted", "raised"}
              /\ exit_s' = "break" => taken' = taken + 1
              /\ exit_s' = "raised" => Len(err_s') = Len(err_s) + 1
       /\ stalls' # stalls => pc_s' = "loop" /\ exit_s' = "none"]_vars

C18_Witness ==
    /\ exit_s = "break"
    /\ taken = 22
    /\ printed_s = 22
    /\ last_i = <<21>>
    /\ stalls = MaxStalls

\* C19: once the loop has ended by its break or by the end of the stream,
\* r.close() is the statement that runs next, it runs once, and afterwards
\* nothing is read from the iterator.
C19_ClosedAfterLoop ==
    [][/\ closed' <= 1
       /\ exit_s' \in {"break", "exhausted"} =>
              \/ pc_s' = "close" /\ closed' = 0
              \/ pc_s' = "end" /\ closed' = 1 /\ conn' = "closed"
       /\ pc_s = "close" => closed' = closed + 1 /\ pc_s' = "end"
       /\ closed >= 1 => UNCHANGED <<taken, printed_s, last_i>>]_vars

C19_Witness ==
    /\ exit_s = "exhausted"
    /\ taken = 2
    /\ pc_s = "end"
    /\ closed = 1
    /\ conn = "closed"

====
